---------------------------- MODULE Spec2Model ----------------------------
(***************************************************************************)
(* Store (Storage, src/src/utils.js) and download queue (DownloadQueue,    *)
(* src/server.js) of the channel monitor.                                  *)
(*                                                                         *)
(* Granularity.  Every Storage method is an async function whose body is   *)
(* synchronous (save() uses writeFileSync/renameSync), so an await on it   *)
(* only yields to the microtask queue.  Node drains the microtask queue    *)
(* after every timer, immediate and I/O callback, hence each callback      *)
(* together with the chain of awaits it triggers is one atomic step:       *)
(* one _processQueue wake-up up to the spawn of the child process, one     *)
(* 'close' event of a child up to the finally block of _downloadNext, one  *)
(* HTTP request on the store.                                              *)
(*                                                                         *)
(* A task id is the position of the task in data.downloads: the list is    *)
(* append-only and ids are never reused.                                   *)
(***************************************************************************)
EXTENDS Integers, Sequences, FiniteSets, TLC

\* ------------------------------------------------------------------ bounds
NumVideos == 2
MaxDownloads == 2
MaxWakeups == 3
MaxConcurrent == 2
ScenarioTasks == 5
ScenarioConcurrency == 3
NumChannels == 2
StoreChannels == 1
StoreVideos == 1
StoreTasks == 2
MaxBackups == 1
MaxListing == 2
MaxPasses == 2
MaxAttemptSetting == 2
MaxDays == 7
MaxFetchList == 4
MaxCancels == 2

VideoIds == 1..NumVideos
Qualities == {"720p"}
ConcurrencySettings == 1..MaxConcurrent
Urls == 1..NumChannels
ChannelIds == 1..NumChannels

\* ------------------------------------------------------- program constants
MAX_RETRIES == 2
PendingScanLimit == 100
ErrorLimit == 500
\* an errorMessage is null or a text, which the model holds by its length:
\* the texts of the queue's own errors
NullMessage == -1
MissingVideoMessage == 7
ExitCodeMessage == 12
TypeErrorMessage == 50
DefaultMaxAttempts == 3
DefaultDelayMs == 2000
\* a completedAt is null or the day of the clock reading
NullDate == -1
RetentionDays == 5
CONCURRENT_LIMIT == 3

VARIABLES
    channels,                \* Storage.data.channels: sequence of channel records
    videos,                  \* Storage.data.videos: item record per video id
    downloads,               \* Storage.data.downloads: sequence of task records
    dataKeys,                \* top-level keys Storage.data has
    fileExists,              \* the storage file is present on disk
    fileData,                \* text held by the storage file
    tmpFile,                 \* text held by the storage file's .tmp sibling
    backups,                 \* texts of the .backup.<time> files
    loaded,                  \* Storage.init() has run in this process
    resetCount,              \* tasks the last init() reset to pending
    activeDownloads,         \* DownloadQueue.activeDownloads: keys of the Map
    execs,                   \* running yt-dlp executions per task id
    isRunning,               \* DownloadQueue.isRunning
    isStopping,              \* DownloadQueue.isStopping
    stopPc,                  \* position of the last DownloadQueue.stop() call
    wakeups,                 \* outstanding _processQueue timers/immediates
    maxConcurrentDownloads,  \* config.monitoring.maxConcurrentDownloads
    isChecking,              \* MonitoringScheduler._isChecking
    passes,                  \* the checkAllChannelsNow() calls in progress
    lastStats,               \* the last 'monitoring:check-complete' event
    lastPass,                \* history: the last pass that ran to its end
    cronTask,                \* MonitoringScheduler.cronTask is set
    startupTimer,            \* the timer of the start-up check is pending
    failedEvents,            \* 'download:failed' events emitted per task id
    notes,                   \* completion notifications handed to Telegram
    telegram,                \* TelegramService: enabled, maxRetries, retryDelay
    today,                   \* the system clock, in days
    progress,                \* stdout of one execution: lastProgress, readings
    pool,                    \* one fetchVideosDetailsAsync call and its record
    sigint,                  \* position of the SIGINT handler
    failStreak               \* history: consecutive failed executions per task

vars == <<channels, videos, downloads, dataKeys, fileExists, fileData,
          tmpFile, backups, loaded, resetCount, activeDownloads, execs,
          isRunning, isStopping, stopPc, wakeups, maxConcurrentDownloads,
          isChecking, passes, lastStats, lastPass, cronTask, startupTimer,
          failedEvents, notes, telegram, today, progress, pool, sigint, failStreak>>

storeVars == <<channels, videos, downloads, dataKeys, fileExists, fileData,
               tmpFile, backups>>
fileVars == <<fileExists, fileData, tmpFile>>
queueVars == <<activeDownloads, execs, isRunning, isStopping, wakeups,
               failedEvents>>
schedVars == <<isChecking, passes, lastStats, lastPass, cronTask,
               startupTimer>>
triggerVars == <<cronTask, startupTimer>>
\* the notifications and the signal handler
procVars == <<notes, telegram, today, progress, pool, sigint>>
\* what no step of the download queue touches
sideVars == <<channels, dataKeys, backups, schedVars, telegram, today, progress, pool, sigint>>

TaskIds == 1..(MaxDownloads + ScenarioTasks)

\* ------------------------------------------------------------------ Storage
AllKeys == {"channels", "videos", "downloads"}

NoVideos == <<>>

\* a text that is no JSON document
Text(kind) ==
    [kind |-> kind, keys |-> {}, channels |-> <<>>, videos |-> NoVideos,
     downloads |-> <<>>]

\* the .tmp file is not there
NoFile == Text("absent")

\* what a write that was cut short leaves
Partial == Text("partial")

\* a text JSON.parse refuses for another reason
Garbage == Text("garbage")

\* JSON.stringify of a channel: a property whose value is undefined is left out
StringifyChannel(ch) ==
    IF "enabled" \in DOMAIN ch /\ ch.enabled = "undefined"
    THEN [f \in DOMAIN ch \ {"enabled"} |-> ch[f]]
    ELSE ch

\* a text that leaves the items out
StringifyItemsLost(keys, chs, vids, dls) ==
    [kind |-> "json", keys |-> keys, channels |-> chs, videos |-> NoVideos,
     downloads |-> dls]

\* JSON.stringify(this.data, null, 2) of a document with the top-level keys
\* `keys`; JSON.parse of the text gives the fields of the record back
Stringify(keys, chs, vids, dls) ==
    [kind |-> "json",
     keys |-> keys,
     channels |-> IF "channels" \in keys
                  THEN [i \in DOMAIN chs |-> StringifyChannel(chs[i])]
                  ELSE <<>>,
     videos |-> IF "videos" \in keys THEN vids ELSE NoVideos,
     downloads |-> IF "downloads" \in keys THEN dls ELSE <<>>]

\* a JSON.parse that throws on every text
ParsesNothing(text) == FALSE

\* JSON.parse(content) returns instead of throwing
Parses(text) == text.kind = "json"

\* the data the constructor sets
EmptyData == Stringify(AllKeys, <<>>, NoVideos, <<>>)

NoData == <<>>

\* Object.assign(download, data): the keys of data overwrite the record's
Assign(d, data) ==
    [f \in DOMAIN d |-> IF f \in DOMAIN data THEN data[f] ELSE d[f]]

\* channel.enabled, read as a condition (a missing property is undefined)
Enabled(ch) == "enabled" \in DOMAIN ch /\ ch.enabled = "true"

Min(S) == CHOOSE x \in S : \A y \in S : x <= y

NewChannel(id, url) ==
    [id |-> id, url |-> url, enabled |-> "true", lastCheckAt |-> "null"]

\* addChannel(url, name) at a clock reading `now`
addChannel(chs, url, now) ==
    IF \E i \in DOMAIN chs : chs[i].url = url
    THEN chs
    ELSE Append(chs, NewChannel(now, url))

\* getChannels(true)
getEnabledChannels(chs) == SelectSeq(chs, Enabled)

SetField(r, f, v) ==
    [g \in DOMAIN r \cup {f} |-> IF g = f THEN v ELSE r[g]]

\* toggleChannel(id, enabled): the first channel with the id
toggleChannel(chs, id, enabled) ==
    IF \E i \in DOMAIN chs : chs[i].id = id
    THEN LET k == Min({i \in DOMAIN chs : chs[i].id = id})
         IN  [chs EXCEPT ![k] = SetField(@, "enabled", enabled)]
    ELSE chs

removeChannel(chs, id) == SelectSeq(chs, LAMBDA ch : ch.id # id)

updateChannelLastCheck(chs, id) ==
    IF \E i \in DOMAIN chs : chs[i].id = id
    THEN LET k == Min({i \in DOMAIN chs : chs[i].id = id})
         IN  [chs EXCEPT ![k] = SetField(@, "lastCheckAt", "time")]
    ELSE chs

NewVideo(channelId, videoId) == [id |-> videoId, channelId |-> channelId]

\* videoExists(videoId)
videoExists(vids, videoId) == videoId \in DOMAIN vids

\* an addVideo that stores the item without looking for its id
addVideoOverwrite(vids, channelId, videoId) ==
    [v \in DOMAIN vids \cup {videoId} |->
        IF v = videoId THEN NewVideo(channelId, videoId) ELSE vids[v]]

\* the items after addVideo(channelId, {id: videoId, ...})
addVideo(vids, channelId, videoId) ==
    IF videoId \in DOMAIN vids
    THEN vids
    ELSE [v \in DOMAIN vids \cup {videoId} |->
             IF v = videoId THEN NewVideo(channelId, videoId) ELSE vids[v]]

\* init(): an item stored without an id gets its key as id
migrateVideos(vids) ==
    [v \in DOMAIN vids |->
        IF vids[v].id = 0 THEN [vids[v] EXCEPT !.id = v] ELSE vids[v]]

NewDownload(videoId, quality) ==
    [videoId |-> videoId, status |-> "pending", quality |-> quality,
     filePath |-> "null", retryCount |-> 0, errorMessage |-> NullMessage,
     completedAt |-> NullDate]

\* a search that takes only pending tasks as queued
ExistingPending(dls, videoId) ==
    {i \in DOMAIN dls : dls[i].videoId = videoId
                        /\ dls[i].status = "pending"}

ExistingDownload(dls, videoId) ==
    {i \in DOMAIN dls : dls[i].videoId = videoId
                        /\ dls[i].status \in {"pending", "downloading"}}


\* the task list after createDownload(videoId, quality)
createDownload(dls, videoId, quality) ==
    IF ExistingDownload(dls, videoId) # {}
    THEN dls
    ELSE Append(dls, NewDownload(videoId, quality))

\* the id createDownload(videoId, quality) returns
createDownloadId(dls, videoId) ==
    IF ExistingDownload(dls, videoId) # {}
    THEN Min(ExistingDownload(dls, videoId))
    ELSE Len(dls) + 1

\* the pending tasks taken from the end of the list
getPendingDownloadsNewest(dls, limit) ==
    LET idx == [i \in 1..Len(dls) |-> Len(dls) + 1 - i]
        pend == SelectSeq(idx, LAMBDA i : dls[i].status = "pending")
    IN  SubSeq(pend, 1, IF Len(pend) < limit THEN Len(pend) ELSE limit)

\* ids of the first `limit` pending tasks, in list order
getPendingDownloads(dls, limit) ==
    LET idx == [i \in 1..Len(dls) |-> i]
        pend == SelectSeq(idx, LAMBDA i : dls[i].status = "pending")
    IN  SubSeq(pend, 1, IF Len(pend) < limit THEN Len(pend) ELSE limit)

\* completedAt = new Date() when the new status is completed or failed
stampCompleted(d, status) ==
    IF status \in {"completed", "failed"}
    THEN [d EXCEPT !.completedAt = today]
    ELSE d

updateDownloadStatus(dls, id, status, data) ==
    IF id \in DOMAIN dls
    THEN [dls EXCEPT ![id] =
             stampCompleted(Assign([@ EXCEPT !.status = status], data),
                            status)]
    ELSE dls

\* a retry that is never refused for a known task
retryAllowedUnbounded(dls, id) ==
    id \in DOMAIN dls

retryAllowed(dls, id) ==
    id \in DOMAIN dls /\ dls[id].retryCount < MAX_RETRIES

\* a retry that does not look at retryCount
retryFailedDownloadUnchecked(dls, id) ==
    IF id \in DOMAIN dls
    THEN [dls EXCEPT ![id] = [@ EXCEPT !.status = "pending",
                                       !.retryCount = @ + 1,
                                       !.errorMessage = NullMessage]]
    ELSE dls

\* what retryFailedDownload(id) returns
retryReturns(dls, id) == retryAllowed(dls, id)

retryFailedDownload(dls, id) ==
    IF retryAllowed(dls, id)
    THEN [dls EXCEPT ![id] = [@ EXCEPT !.status = "pending",
                                       !.retryCount = @ + 1,
                                       !.errorMessage = NullMessage]]
    ELSE dls

\* an init() that keeps the tasks as loaded
resetNothing(dls) == dls

\* init(): every task found in state downloading becomes pending
resetDownloading(dls) ==
    [i \in DOMAIN dls |->
        IF dls[i].status = "downloading"
        THEN [dls[i] EXCEPT !.status = "pending"]
        ELSE dls[i]]

CountDownloading(dls) ==
    Cardinality({i \in DOMAIN dls : dls[i].status = "downloading"})

\* save(): the text the file holds for the store's channels and keys
Snapshot(vids, dls) == Stringify(dataKeys, channels, vids, dls)


\* ------------------------------------- DownloadQueue._executeDownload
\* A progress reading is the number parseFloat takes from a line
\* "[download]  45.8% of ...": yt-dlp prints one decimal, and the model
\* holds a reading in tenths of a percent.
Complete == 1000
Step == 50

\* let lastProgress = 0, before any line was read
NoProgress ==
    [lastProgress |-> 0, reading |-> 0, before |-> 0, emitted |-> FALSE]

\* the readings a for which the IEEE-754 double difference (a + 5) - a of
\* the two parsed numbers is below 5 (10.2 - 5.2 is 4.999999999999999)
RoundsBelowStep ==
    {32, 37, 42, 47, 52, 57, 62, 67, 72, 77,
     114, 119, 124, 129, 134, 139, 144, 149, 154, 159,
     273, 278, 283, 288, 293, 298, 303, 308, 313, 318,
     591, 596, 601, 606, 611, 616, 621, 626, 631, 636}

\* progress - lastProgress >= 5, on doubles
advanced(last, reading) ==
    /\ reading - last >= Step
    /\ ~(reading - last = Step /\ last \in RoundsBelowStep)

\* if (progress - lastProgress >= 5 || progress === 100)
emits(last, reading) == advanced(last, reading) \/ reading = Complete

\* ------------------------------------------------ fetchVideosDetailsAsync
\* One call of fetchVideosDetailsAsync(channelId, videos) and its record in
\* activeDetailFetchTasks.  index counts the videos taken, inflight holds
\* the videos whose fetchVideoDetails promise is not settled, fetched counts
\* the fetches started per video, workers the processNext chains that have
\* not returned; returned and cancels are the result and the number of the
\* cancelDetailFetchTask calls.
NoPool ==
    [phase |-> "idle", total |-> 0, index |-> 0, inflight |-> {},
     fetched |-> [i \in 1..MaxFetchList |-> 0], completed |-> 0,
     failed |-> 0, registered |-> FALSE, cancelled |-> FALSE, workers |-> 0,
     returned |-> "none", cancels |-> 0]

\* a processNext that takes the video at index without index++
processNextRepeat(p) ==
    IF p.index >= p.total \/ (p.registered /\ p.cancelled)
    THEN [p EXCEPT !.workers = @ - 1]
    ELSE [p EXCEPT !.inflight = @ \cup {p.index + 1},
                   !.fetched[p.index + 1] = @ + 1]

\* a processNext that does not look at the record
processNextUnchecked(p) ==
    IF p.index >= p.total
    THEN [p EXCEPT !.workers = @ - 1]
    ELSE [p EXCEPT !.index = @ + 1,
                   !.inflight = @ \cup {p.index + 1},
                   !.fetched[p.index + 1] = @ + 1]

\* processNext() up to its first await or its return: no video is left, the
\* task is cancelled, or the next video is taken and its fetch started
processNext(p) ==
    IF p.index >= p.total \/ (p.registered /\ p.cancelled)
    THEN [p EXCEPT !.workers = @ - 1]
    ELSE [p EXCEPT !.index = @ + 1,
                   !.inflight = @ \cup {p.index + 1},
                   !.fetched[p.index + 1] = @ + 1]

\* the loop that starts the workers
RECURSIVE startWorkers(_, _)
startWorkers(p, n) ==
    IF n = 0 THEN p ELSE startWorkers(processNext(p), n - 1)

\* Promise.all(workers) resolves when the last chain has returned: the
\* record is deleted
afterWorkers(p) ==
    IF p.workers = 0
    THEN [p EXCEPT !.phase = "ended", !.registered = FALSE]
    ELSE p

\* the result of cancelDetailFetchTask(taskId); the call's own taskId is
\* "task"
cancelReturns(p, taskId) == taskId = "task" /\ p.registered

\* ------------------------------------------------------------------- state
NoExecs == [i \in TaskIds |-> 0]

\* no pass has run to its end in this process
NoPass == [ended |-> FALSE, sources |-> 0, summaries |-> 0]

\* new TelegramService(config.telegram): `||` takes the default for a
\* setting that is missing or 0
TelegramService(enabled, maxAttempts, delayMs) ==
    [enabled |-> enabled,
     maxRetries |-> IF maxAttempts = 0 THEN DefaultMaxAttempts
                                       ELSE maxAttempts,
     retryDelay |-> IF delayMs = 0 THEN DefaultDelayMs ELSE delayMs]

\* config.telegram as src/config.js sets it when TELEGRAM_ENABLED is not set
TelegramDisabled == TelegramService(FALSE, DefaultMaxAttempts, DefaultDelayMs)

\* the process after the constructors of Storage, DownloadQueue and
\* MonitoringScheduler
Constructed ==
    /\ channels = <<>>
    /\ videos = NoVideos
    /\ downloads = <<>>
    /\ dataKeys = AllKeys
    /\ fileExists = FALSE
    /\ fileData = EmptyData
    /\ tmpFile = NoFile
    /\ backups = {}
    /\ loaded = FALSE
    /\ resetCount = 0
    /\ activeDownloads = {}
    /\ execs = NoExecs
    /\ isRunning = FALSE
    /\ isStopping = FALSE
    /\ stopPc = "idle"
    /\ wakeups = 0
    /\ isChecking = FALSE
    /\ passes = <<>>
    /\ lastStats = [totalChannels |-> 0, newVideos |-> 0, errors |-> 0]
    /\ lastPass = NoPass
    /\ cronTask = FALSE
    /\ startupTimer = FALSE
    /\ failedEvents = [i \in TaskIds |-> 0]
    /\ notes = <<>>
    /\ sigint = "none"
    /\ today = 0
    /\ progress = NoProgress
    /\ pool = NoPool
    /\ failStreak = [i \in TaskIds |-> 0]

Init ==
    /\ Constructed
    /\ maxConcurrentDownloads \in ConcurrencySettings
    /\ telegram = TelegramDisabled

\* writeFileSync(tempFile, text) followed by renameSync(tempFile, filePath)
SaveText(text) ==
    /\ fileExists' = TRUE
    /\ fileData' = text
    /\ tmpFile' = NoFile

\* save() after a mutation that leaves the store holding vids and dls
Save(vids, dls) == SaveText(Snapshot(vids, dls))

\* ------------------------------------------------------------ Storage.init
\* the try block stops with an exception: JSON.parse throws on the text, or
\* the loaded document has no downloads list or no videos object
InitThrows(exists, text) ==
    exists /\ (~Parses(text) \/ ~({"downloads", "videos"} \subseteq text.keys))

StorageInit ==
    /\ ~loaded
    /\ LET parsed == fileExists /\ Parses(fileData)
           data == IF parsed THEN fileData ELSE EmptyData
           hasDls == "downloads" \in data.keys
           dls == IF hasDls THEN resetDownloading(data.downloads)
                            ELSE data.downloads
           n == IF hasDls THEN CountDownloading(data.downloads) ELSE 0
           vids == IF hasDls /\ "videos" \in data.keys
                   THEN migrateVideos(data.videos)
                   ELSE data.videos
           \* the file when the catch block renames it
           atCatch == IF parsed /\ n > 0
                      THEN Stringify(data.keys, data.channels, data.videos, dls)
                      ELSE fileData
       IN  /\ dataKeys' = data.keys
           /\ channels' = data.channels
           /\ videos' = vids
           /\ downloads' = dls
           /\ resetCount' = n
           /\ backups' = IF InitThrows(fileExists, fileData)
                         THEN backups \cup {atCatch}
                         ELSE backups
           /\ IF \/ ~fileExists
                 \/ InitThrows(fileExists, fileData)
                 \/ n > 0
                 \/ vids # data.videos
              THEN SaveText(Stringify(data.keys, data.channels, vids, dls))
              ELSE UNCHANGED fileVars
    /\ loaded' = TRUE
    /\ UNCHANGED <<queueVars, stopPc, maxConcurrentDownloads, schedVars,
                   procVars, failStreak>>

\* the process ends (exit, kill, power loss): memory is lost, the files stay
CrashBody ==
    /\ loaded
    /\ channels' = <<>>
    /\ videos' = NoVideos
    /\ downloads' = <<>>
    /\ dataKeys' = AllKeys
    /\ loaded' = FALSE
    /\ resetCount' = 0
    /\ activeDownloads' = {}
    /\ execs' = NoExecs
    /\ isRunning' = FALSE
    /\ isStopping' = FALSE
    /\ stopPc' = "idle"
    /\ wakeups' = 0
    /\ isChecking' = FALSE
    /\ passes' = <<>>
    /\ lastStats' = [totalChannels |-> 0, newVideos |-> 0, errors |-> 0]
    /\ lastPass' = NoPass
    /\ cronTask' = FALSE
    /\ startupTimer' = FALSE
    /\ failedEvents' = [i \in TaskIds |-> 0]
    /\ notes' = <<>>
    /\ UNCHANGED <<backups, maxConcurrentDownloads, telegram, today, progress, pool, failStreak>>

Crash == CrashBody /\ sigint' = "none" /\ UNCHANGED fileVars

\* --------------------------------------------------- DownloadQueue.enqueue
\* enqueue(videoId, quality) on a store that holds the items vids; without a
\* downloads list createDownload throws before it changes anything
EnqueueOn(vids, videoId, quality) ==
    /\ loaded
    /\ videos' = vids
    /\ IF "downloads" \in dataKeys
       THEN /\ downloads' = createDownload(downloads, videoId, quality)
            /\ IF vids = videos /\ ExistingDownload(downloads, videoId) # {}
               THEN UNCHANGED fileVars
               ELSE Save(vids, createDownload(downloads, videoId, quality))
            /\ wakeups' =
                  IF isRunning
                     /\ Cardinality(activeDownloads) < maxConcurrentDownloads
                  THEN wakeups + 1
                  ELSE wakeups
       ELSE /\ UNCHANGED <<downloads, wakeups>>
            /\ IF vids = videos
               THEN UNCHANGED fileVars
               ELSE Save(vids, downloads)
    /\ UNCHANGED <<loaded, resetCount, activeDownloads, execs, isRunning,
                   isStopping, failedEvents, stopPc, maxConcurrentDownloads,
                   sideVars, notes, failStreak>>

\* enqueue() of an item the store knows
Enqueue(videoId, quality) ==
    /\ videoExists(videos, videoId)
    /\ EnqueueOn(videos, videoId, quality)

\* ------------------------------------ MonitoringScheduler.checkChannel
\* a listed item that videoExists() reports as new: addVideo, then enqueue
Discover(channelId, videoId, quality) ==
    /\ "videos" \in dataKeys
    /\ ~videoExists(videos, videoId)
    /\ EnqueueOn(addVideo(videos, channelId, videoId), videoId, quality)

\* ------------------------------------- POST /api/downloads/:downloadId/retry
RetryRequest(id) ==
    /\ downloads' = retryFailedDownload(downloads, id)
    /\ IF retryAllowed(downloads, id)
       THEN Save(videos, retryFailedDownload(downloads, id))
       ELSE UNCHANGED fileVars
    /\ UNCHANGED <<videos, loaded, resetCount, queueVars, stopPc,
                   maxConcurrentDownloads, sideVars, notes, failStreak>>

\* -------------------------------------------- DownloadQueue._handleFailure
\* a substring that keeps the whole text
untruncated(message) == message

\* errorMessage?.substring(0, 500)
truncated(message) ==
    IF message > ErrorLimit THEN ErrorLimit ELSE message

\* _handleFailure reaches its else branch: the task is among the pending
\* tasks and has used its retries
failsFinally(dls, id) ==
    LET pending == getPendingDownloads(dls, PendingScanLimit)
    IN  /\ \E k \in DOMAIN pending : pending[k] = id
        /\ dls[id].retryCount >= MAX_RETRIES

handleFailure(dls, id, message) ==
    LET pending == getPendingDownloads(dls, PendingScanLimit)
        found == \E k \in DOMAIN pending : pending[k] = id
    IN  IF ~found
        THEN dls
        ELSE IF dls[id].retryCount < MAX_RETRIES
             THEN retryFailedDownload(dls, id)
             ELSE updateDownloadStatus(dls, id, "failed",
                                       [errorMessage |-> truncated(message)])

\* the 'download:failed' events after _handleFailure(id, ...)
failedEmitted(events, dls, id) ==
    IF failsFinally(dls, id)
    THEN [events EXCEPT ![id] = @ + 1]
    ELSE events

\* ------------------------------------------- DownloadQueue._downloadNext
\* _downloadNext(download) from its call to the point where it waits for the
\* child process, or to its end: getVideo throws when the store has no videos
\* object (the catch block calls _handleFailure), or finds no item
DownloadNextStart(id) ==
    IF "videos" \notin dataKeys
    THEN /\ downloads' = handleFailure(downloads, id, TypeErrorMessage)
         /\ failedEvents' = failedEmitted(failedEvents, downloads, id)
         /\ activeDownloads' = activeDownloads \ {id}
         /\ UNCHANGED execs
    ELSE IF ~videoExists(videos, downloads[id].videoId)
    THEN /\ downloads' = updateDownloadStatus(
                            downloads, id, "failed",
                            [errorMessage |-> MissingVideoMessage])
         /\ activeDownloads' = activeDownloads \ {id}
         /\ UNCHANGED <<execs, failedEvents>>
    ELSE /\ downloads' = updateDownloadStatus(downloads, id, "downloading",
                                              NoData)
         /\ activeDownloads' = activeDownloads \cup {id}
         /\ execs' = [execs EXCEPT ![id] = @ + 1]
         /\ UNCHANGED failedEvents

\* one pass of _processQueue on a running queue; without a downloads list
\* getPendingDownloads throws and the catch block re-arms the timer
ProcessQueueRun ==
    IF \/ Cardinality(activeDownloads) >= maxConcurrentDownloads
       \/ "downloads" \notin dataKeys
       \/ getPendingDownloads(downloads, 1) = <<>>
    THEN UNCHANGED <<downloads, fileVars, activeDownloads, execs,
                     failedEvents>>
    ELSE /\ DownloadNextStart(getPendingDownloads(downloads, 1)[1])
         /\ Save(videos, downloads')

\* a timer or immediate of _processQueue fires
ProcessQueue ==
    /\ wakeups > 0
    /\ IF isStopping \/ ~isRunning
       THEN /\ wakeups' = wakeups - 1
            /\ UNCHANGED <<downloads, fileVars, activeDownloads, execs,
                           failedEvents>>
       ELSE /\ ProcessQueueRun
            /\ UNCHANGED wakeups
    /\ UNCHANGED <<videos, loaded, resetCount, isRunning, isStopping, stopPc,
                   maxConcurrentDownloads, sideVars, notes, failStreak>>

\* ----------------------------------------------------- DownloadQueue.start
Start ==
    /\ loaded
    /\ IF isRunning
       THEN UNCHANGED <<downloads, fileVars, queueVars>>
       ELSE /\ isRunning' = TRUE
            /\ isStopping' = FALSE
            /\ ProcessQueueRun
            /\ wakeups' = wakeups + 1
    /\ UNCHANGED <<videos, loaded, resetCount, stopPc,
                   maxConcurrentDownloads, sideVars, notes, failStreak>>

\* ------------------------------------------------------ DownloadQueue.stop
\* stop() up to its return (no active download) or to the start of its
\* polling interval
Stop ==
    /\ loaded
    /\ isStopping' = TRUE
    /\ isRunning' = FALSE
    /\ stopPc' = IF activeDownloads = {} THEN "returned" ELSE "waiting"
    /\ UNCHANGED <<videos, downloads, fileVars, loaded, resetCount,
                   activeDownloads, execs, wakeups, failedEvents,
                   maxConcurrentDownloads, sideVars, notes, failStreak>>

\* a tick of the interval stop() polls activeDownloads.size with
StopPoll ==
    /\ stopPc = "waiting"
    /\ stopPc' = IF activeDownloads = {} THEN "returned" ELSE "waiting"
    /\ UNCHANGED <<videos, downloads, fileVars, loaded, resetCount, queueVars,
                   maxConcurrentDownloads, sideVars, notes, failStreak>>

\* ------------------------------------------------- DownloadQueue.getStatus
\* Storage.getDownloadStats(): the tasks counted by status
getDownloadStats(dls) ==
    [st \in {"pending", "downloading", "completed", "failed"} |->
        Cardinality({i \in DOMAIN dls : dls[i].status = st})]

getStatus ==
    [running |-> isRunning,
     active |-> Cardinality(activeDownloads),
     pending |-> getDownloadStats(downloads)["pending"],
     completed |-> getDownloadStats(downloads)["completed"],
     failed |-> getDownloadStats(downloads)["failed"],
     maxConcurrent |-> maxConcurrentDownloads]

\* --------------------------------------------- the completion notification
\* a notifyDownloadComplete call the queue has handed to setImmediate
NewNote(id) ==
    [task |-> id, phase |-> "scheduled", attempt |-> 0, waited |-> <<>>,
     result |-> "none"]

\* the notifications after a task completed: the queue looks the channel up
\* (which throws on a store without channels) and schedules the call
notesAfterComplete(ns, id) ==
    IF "channels" \in dataKeys THEN Append(ns, NewNote(id)) ELSE ns

\* ----------------------------- the child process of a task exits with code 0
ExecSuccessBody(id) ==
    /\ execs[id] > 0
    /\ downloads' = updateDownloadStatus(downloads, id, "completed",
                                         [filePath |-> "file"])
    /\ Save(videos, downloads')
    /\ activeDownloads' = activeDownloads \ {id}
    /\ execs' = [execs EXCEPT ![id] = @ - 1]
    /\ notes' = IF telegram.enabled THEN notesAfterComplete(notes, id)
                                    ELSE notes
    /\ UNCHANGED <<videos, loaded, resetCount, isRunning, isStopping, stopPc,
                   wakeups, failedEvents, maxConcurrentDownloads, channels,
                   dataKeys, backups, schedVars, telegram, today, progress, pool, sigint>>

\* ------- the execution of a task ends with an error that has the message
\* `message`: the child exits with a nonzero code, or cannot be spawned
ExecFailureWith(id, message) ==
    /\ execs[id] > 0
    /\ downloads' = handleFailure(downloads, id, message)
    /\ failedEvents' = failedEmitted(failedEvents, downloads, id)
    /\ IF handleFailure(downloads, id, message) = downloads
       THEN UNCHANGED fileVars
       ELSE Save(videos, downloads')
    /\ activeDownloads' = activeDownloads \ {id}
    /\ execs' = [execs EXCEPT ![id] = @ - 1]
    /\ UNCHANGED <<videos, loaded, resetCount, isRunning, isStopping, stopPc,
                   wakeups, maxConcurrentDownloads, sideVars, notes>>

\* the child process of a task exits with a nonzero code
ExecFailureBody(id) == ExecFailureWith(id, ExitCodeMessage)

ExecSuccess(id) == ExecSuccessBody(id) /\ UNCHANGED failStreak

ExecFailure(id) == ExecFailureBody(id) /\ UNCHANGED failStreak

\* ------------------------------------------ stdout of a running execution
\* readings of the lines of a download: below, at and above a step from the
\* readings before them, the end of a stream and the start of the next
ProgressReadings ==
    {0, 1, 49, 50, 51, 52, 99, 100, 101, 102, 103, 950, 999, Complete}

\* a chunk of the child's stdout with a progress line arrives
StdoutData(reading) ==
    /\ progress' =
          [lastProgress |-> IF emits(progress.lastProgress, reading)
                            THEN reading
                            ELSE progress.lastProgress,
           reading |-> reading,
           before |-> progress.lastProgress,
           emitted |-> emits(progress.lastProgress, reading)]
    /\ UNCHANGED <<storeVars, loaded, resetCount, queueVars, stopPc,
                   maxConcurrentDownloads, schedVars, notes, telegram, sigint,
                   today, pool, failStreak>>

NextProgress == \E r \in ProgressReadings : StdoutData(r)

SpecProgress == Init /\ [][NextProgress]_vars

\* ------------------------------------------------ the detail-fetch pool
\* fetchVideosDetailsAsync is called with a list of n videos
FetchStart(n) ==
    /\ pool.phase = "idle"
    /\ pool' = afterWorkers(
                  startWorkers([pool EXCEPT !.phase = "running",
                                            !.total = n,
                                            !.registered = TRUE,
                                            !.workers = CONCURRENT_LIMIT],
                               CONCURRENT_LIMIT))
    /\ UNCHANGED <<storeVars, loaded, resetCount, queueVars, stopPc,
                   maxConcurrentDownloads, schedVars, notes, telegram, sigint,
                   today, progress, failStreak>>

\* the fetchVideoDetails promise of video i settles (resolve, reject, or
\* the 60 s timeout): the counters, then the next video of the chain
FetchEnds(i, ok) ==
    /\ pool.phase = "running"
    /\ i \in pool.inflight
    /\ LET counted == [pool EXCEPT !.inflight = @ \ {i},
                                   !.completed = IF ok THEN @ + 1 ELSE @,
                                   !.failed = IF ok THEN @ ELSE @ + 1]
       IN  pool' = afterWorkers(
                      IF counted.index < counted.total
                      THEN processNext(counted)
                      ELSE [counted EXCEPT !.workers = @ - 1])
    /\ UNCHANGED <<storeVars, loaded, resetCount, queueVars, stopPc,
                   maxConcurrentDownloads, schedVars, notes, telegram, sigint,
                   today, progress, failStreak>>

\* POST /api/channels/cancel-details with a taskId
CancelDetails(taskId) ==
    /\ pool.cancels < MaxCancels
    /\ pool' = [pool EXCEPT
                  !.cancelled = @ \/ cancelReturns(pool, taskId),
                  !.returned = IF cancelReturns(pool, taskId)
                               THEN "true" ELSE "false",
                  !.cancels = @ + 1]
    /\ UNCHANGED <<storeVars, loaded, resetCount, queueVars, stopPc,
                   maxConcurrentDownloads, schedVars, notes, telegram, sigint,
                   today, progress, failStreak>>

NextPool ==
    \/ \E n \in 0..MaxFetchList : FetchStart(n)
    \/ \E i \in 1..MaxFetchList, ok \in BOOLEAN : FetchEnds(i, ok)
    \/ \E id \in {"task", "other"} : CancelDetails(id)

SpecPool == Init /\ [][NextPool]_vars

\* ------------------------------------------------------------ specification
\* no more than MaxDownloads tasks and MaxWakeups outstanding wake-ups; the
\* items are those of one channel (the queue never reads an item's channel)
Bounded(videoId) ==
    /\ createDownloadId(downloads, videoId) <= MaxDownloads
    /\ wakeups' <= MaxWakeups

Next ==
    \/ StorageInit
    \/ Crash
    \/ \E v \in VideoIds, q \in Qualities :
          Discover(Min(ChannelIds), v, q) /\ Bounded(v)
    \/ \E v \in VideoIds, q \in Qualities : Enqueue(v, q) /\ Bounded(v)
    \/ \E id \in TaskIds : RetryRequest(id)
    \/ (Start /\ wakeups' <= MaxWakeups)
    \/ Stop
    \/ ProcessQueue
    \/ \E id \in TaskIds : ExecSuccess(id)
    \/ \E id \in TaskIds : ExecFailure(id)

Spec == Init /\ [][Next]_vars

\* the child process of a task cannot be spawned or killed ('error' event):
\* the message is the system's
ExecError(id, message) == ExecFailureWith(id, message) /\ UNCHANGED failStreak

\* -------------------------------------------- history of failed executions
\* Spec with failStreak[id] counting the executions of id that failed since
\* its last successful one (up to MAX_RETRIES + 1)
ExecSuccessCounted(id) ==
    /\ ExecSuccessBody(id)
    /\ failStreak' = [failStreak EXCEPT ![id] = 0]

ExecFailureCounted(id) ==
    /\ ExecFailureBody(id)
    /\ failStreak' = [failStreak EXCEPT ![id] =
                         IF @ < MAX_RETRIES + 1 THEN @ + 1 ELSE @]

NextStreak ==
    \/ StorageInit
    \/ \E v \in VideoIds, q \in Qualities :
          Discover(Min(ChannelIds), v, q) /\ Bounded(v)
    \/ \E id \in TaskIds : RetryRequest(id)
    \/ (Start /\ wakeups' <= MaxWakeups)
    \/ ProcessQueue
    \/ \E id \in TaskIds : ExecSuccessCounted(id)
    \/ \E id \in TaskIds : ExecFailureCounted(id)

SpecStreak == Init /\ [][NextStreak]_vars

\* ------------------------------- scenario: a burst of tasks, fair scheduling
\* ScenarioTasks distinct items of one channel are discovered on a queue whose
\* maxConcurrentDownloads is ScenarioConcurrency; the event loop runs every
\* pending wake-up and every child process eventually exits
InitScenario ==
    /\ Constructed
    /\ maxConcurrentDownloads = ScenarioConcurrency
    /\ telegram = TelegramDisabled

NextScenario ==
    \/ StorageInit
    \/ Start
    \/ \E q \in Qualities :
          /\ Len(downloads) < ScenarioTasks
          /\ Discover(Min(ChannelIds), Len(downloads) + 1, q)
    \/ ProcessQueue
    \/ \E id \in TaskIds : ExecSuccess(id)
    \/ \E id \in TaskIds : ExecFailure(id)

SpecScenario ==
    /\ InitScenario
    /\ [][NextScenario]_vars
    /\ WF_vars(ProcessQueue)
    /\ \A id \in TaskIds : WF_vars(ExecSuccess(id) \/ ExecFailure(id))

\* ------------------------------------------------- the store and its file
\* The calls the rest of the program makes on the store, a process that dies
\* inside save(), and restarts.  Urls and clock readings are drawn from
\* 1..StoreChannels, item ids from 1..StoreVideos; at most StoreTasks tasks
\* are created.
StoreUrls == 1..StoreChannels
ClockReadings == 1..StoreChannels
StoreVideoIds == 1..StoreVideos

\* req.body.enabled of POST /api/monitor/channels/toggle
Flags == {"true", "false", "undefined"}

\* values of config.monitoring.defaultQuality
StoreQualities == {"720p", "1080p"}

\* status and data of the updateDownloadStatus calls of the download queue
CallerUpdates ==
    {<<"downloading", NoData>>,
     <<"completed", [filePath |-> "file"]>>,
     <<"failed", [errorMessage |-> MissingVideoMessage]>>}

queueFrame == <<loaded, resetCount, queueVars, stopPc, maxConcurrentDownloads,
                schedVars, procVars, failStreak, backups, dataKeys>>

\* a channel call that returns without save()
SaveChannelsSkipped(chs) == UNCHANGED fileVars

\* save() after a mutation that leaves the store holding the channels chs
SaveChannels(chs) == SaveText(Stringify(dataKeys, chs, videos, downloads))

\* POST /api/monitor/channels/add
AddChannel(url, now) ==
    /\ loaded
    /\ "channels" \in dataKeys
    /\ channels' = addChannel(channels, url, now)
    /\ IF \E i \in DOMAIN channels : channels[i].url = url
       THEN UNCHANGED fileVars
       ELSE SaveChannels(channels')
    /\ UNCHANGED <<videos, downloads, queueFrame>>

\* POST /api/monitor/channels/toggle
ToggleChannel(id, enabled) ==
    /\ loaded
    /\ "channels" \in dataKeys
    /\ channels' = toggleChannel(channels, id, enabled)
    /\ IF \E i \in DOMAIN channels : channels[i].id = id
       THEN SaveChannels(channels')
       ELSE UNCHANGED fileVars
    /\ UNCHANGED <<videos, downloads, queueFrame>>

\* DELETE /api/monitor/channels/:id
RemoveChannel(id) ==
    /\ loaded
    /\ "channels" \in dataKeys
    /\ channels' = removeChannel(channels, id)
    /\ SaveChannels(channels')
    /\ UNCHANGED <<videos, downloads, queueFrame>>

\* updateChannelLastCheck(id), as checkChannel calls it
TouchChannel(id) ==
    /\ loaded
    /\ "channels" \in dataKeys
    /\ channels' = updateChannelLastCheck(channels, id)
    /\ IF \E i \in DOMAIN channels : channels[i].id = id
       THEN SaveChannels(channels')
       ELSE UNCHANGED fileVars
    /\ UNCHANGED <<videos, downloads, queueFrame>>

\* addVideo(channelId, video), as checkChannel calls it
AddVideo(channelId, videoId) ==
    /\ loaded
    /\ "videos" \in dataKeys
    /\ videos' = addVideo(videos, channelId, videoId)
    /\ IF videoExists(videos, videoId)
       THEN UNCHANGED fileVars
       ELSE Save(videos', downloads)
    /\ UNCHANGED <<channels, downloads, queueFrame>>

\* updateDownloadStatus(id, status, data), as the download queue calls it:
\* 'downloading' and 'failed' for a task it has just read as pending,
\* 'completed' at the end of an execution, whatever the task has become
UpdateStatus(id, status, data) ==
    /\ loaded
    /\ "downloads" \in dataKeys
    /\ id \in DOMAIN downloads
    /\ status = "completed" \/ downloads[id].status = "pending"
    /\ downloads' = updateDownloadStatus(downloads, id, status, data)
    /\ IF id \in DOMAIN downloads
       THEN Save(videos, downloads')
       ELSE UNCHANGED fileVars
    /\ UNCHANGED <<channels, videos, queueFrame>>

\* where save() can be cut: before writeFileSync, inside it, before renameSync
SavePoints == {"before", "writing", "written"}

\* a save() that replaces the file's text where it is
InterruptedSaveInPlace(exists, main, tmp, text, point) ==
    [exists |-> exists \/ point # "before",
     main |-> CASE point = "before" -> main
                [] point = "writing" -> Partial
                [] point = "written" -> text,
     tmp |-> tmp]

\* the files after a save() of `text` that stops at `point`
InterruptedSave(exists, main, tmp, text, point) ==
    [exists |-> exists,
     main |-> main,
     tmp |-> CASE point = "before" -> tmp
               [] point = "writing" -> Partial
               [] point = "written" -> text]

\* texts a mutating call of the store would save in the current state
MutatedTexts ==
    {Stringify(dataKeys, addChannel(channels, u, n), videos, downloads) :
        u \in StoreUrls, n \in ClockReadings}
    \cup {Snapshot(addVideo(videos, c, v), downloads) :
             c \in ChannelIds, v \in StoreVideoIds}
    \cup {Snapshot(videos, createDownload(downloads, v, q)) :
             v \in DOMAIN videos, q \in StoreQualities}
    \cup {Snapshot(videos, retryFailedDownload(downloads, i)) :
             i \in DOMAIN downloads}

\* the process dies inside the save() of a mutating call
DieInSave(text, point) ==
    /\ CrashBody
    /\ sigint' = "none"
    /\ LET disk == InterruptedSave(fileExists, fileData, tmpFile, text, point)
       IN  /\ fileExists' = disk.exists
           /\ fileData' = disk.main
           /\ tmpFile' = disk.tmp

\* the store's specifications leave the download queue as constructed
InitStore ==
    /\ Constructed
    /\ maxConcurrentDownloads = Min(ConcurrencySettings)
    /\ telegram = TelegramDisabled

NextStore ==
    \/ StorageInit
    \/ Crash
    \/ \E u \in StoreUrls, n \in ClockReadings : AddChannel(u, n)
    \/ \E n \in ClockReadings, e \in Flags : ToggleChannel(n, e)
    \/ \E n \in ClockReadings : RemoveChannel(n)
    \/ \E n \in ClockReadings : TouchChannel(n)
    \/ \E c \in ChannelIds, v \in StoreVideoIds : AddVideo(c, v)
    \/ \E v \in StoreVideoIds, q \in StoreQualities :
          /\ createDownloadId(downloads, v) <= StoreTasks
          /\ Enqueue(v, q)
    \/ \E id \in 1..StoreTasks : RetryRequest(id)
    \/ \E id \in 1..StoreTasks, u \in CallerUpdates :
          UpdateStatus(id, u[1], u[2])

SpecStore == InitStore /\ [][NextStore]_vars

\* ----------------------------------------------- channels of several urls
\* the channel routes called with the urls of Urls at clock readings that
\* can be the same for two calls (Date.now() counts milliseconds)
NextChannels ==
    \/ StorageInit
    \/ Crash
    \/ \E u \in Urls, n \in Urls : AddChannel(u, n)
    \/ \E n \in Urls, e \in Flags : ToggleChannel(n, e)
    \/ \E n \in Urls : RemoveChannel(n)

SpecChannels == InitStore /\ [][NextChannels]_vars

\* ---------------------------------------------------------- CleanupService
\* getOldDownloads(daysOld): ids of the completed tasks with a filePath whose
\* completedAt is before the cutoff, in list order
getOldDownloads(dls, daysOld) ==
    SelectSeq([i \in 1..Len(dls) |-> i],
              LAMBDA i : /\ dls[i].status = "completed"
                         /\ dls[i].completedAt # NullDate
                         /\ dls[i].filePath # "null"
                         /\ dls[i].completedAt < today - daysOld)

\* the loop of cleanupNow over the old tasks: where _deleteDownloadFiles has
\* removed a file, updateDownloadStatus(id, 'completed', {filePath: null})
RECURSIVE cleanupAll(_, _, _)
cleanupAll(dls, old, deleted) ==
    IF old = <<>>
    THEN dls
    ELSE cleanupAll(IF Head(old) \in deleted
                    THEN updateDownloadStatus(dls, Head(old), "completed",
                                              [filePath |-> "null"])
                    ELSE dls,
                    Tail(old), deleted)

\* cleanupNow(); `deleted` are the tasks whose file is on the disk and can be
\* unlinked.  On a store without a downloads list getOldDownloads throws and
\* the catch block logs the error.
CleanupNow(deleted) ==
    /\ loaded
    /\ downloads' = IF "downloads" \in dataKeys
                    THEN cleanupAll(downloads,
                                    getOldDownloads(downloads, RetentionDays),
                                    deleted)
                    ELSE downloads
    /\ IF downloads' = downloads
       THEN UNCHANGED fileVars
       ELSE Save(videos, downloads')
    /\ UNCHANGED <<channels, videos, queueFrame>>

\* a day passes
Tick ==
    /\ today < MaxDays
    /\ today' = today + 1
    /\ UNCHANGED <<storeVars, loaded, resetCount, queueVars, stopPc,
                   maxConcurrentDownloads, schedVars, notes, telegram, sigint,
                   progress, pool, failStreak>>

NextCleanup ==
    \/ StorageInit
    \/ Crash
    \/ Tick
    \/ \E u \in StoreUrls, n \in ClockReadings : AddChannel(u, n)
    \/ \E n \in ClockReadings : RemoveChannel(n)
    \/ \E c \in ChannelIds, v \in StoreVideoIds : AddVideo(c, v)
    \/ \E v \in StoreVideoIds, q \in Qualities :
          /\ createDownloadId(downloads, v) <= StoreTasks
          /\ Enqueue(v, q)
    \/ \E id \in 1..StoreTasks, u \in CallerUpdates :
          UpdateStatus(id, u[1], u[2])
    \/ \E deleted \in SUBSET (1..StoreTasks) : CleanupNow(deleted)

SpecCleanup == InitStore /\ [][NextCleanup]_vars

\* ------------------------------------------------ a process dying in save()
NextSave ==
    \/ StorageInit
    \/ Crash
    \/ \E t \in MutatedTexts, p \in SavePoints : DieInSave(t, p)
    \/ \E u \in StoreUrls, n \in ClockReadings : AddChannel(u, n)
    \/ \E n \in ClockReadings : RemoveChannel(n)
    \/ \E c \in ChannelIds, v \in StoreVideoIds : AddVideo(c, v)
    \/ \E v \in StoreVideoIds, q \in StoreQualities :
          /\ createDownloadId(downloads, v) <= StoreTasks
          /\ Enqueue(v, q)
    \/ \E id \in 1..StoreTasks : RetryRequest(id)

SpecSave == InitStore /\ [][NextSave]_vars

\* ------------------------------------------- a file changed between two runs
\* texts the file can hold after it was damaged, edited by hand or written by
\* an older version while the process was down: no JSON, a JSON document
\* without some of the three top-level keys, items stored without an id
ForeignTexts(text) ==
    {Garbage}
    \cup {Stringify(K, text.channels, text.videos, text.downloads) :
             K \in (SUBSET AllKeys) \ {AllKeys}}
    \cup {[text EXCEPT !.videos =
              [v \in DOMAIN @ |-> [@[v] EXCEPT !.id = 0]]]}

ReplaceFile(text) ==
    /\ ~loaded
    /\ fileExists
    /\ Parses(fileData)
    /\ Cardinality(backups) < MaxBackups
    /\ fileData' = text
    /\ UNCHANGED <<channels, videos, downloads, dataKeys, fileExists, tmpFile,
                   backups, loaded, resetCount, queueVars, stopPc,
                   maxConcurrentDownloads, schedVars, procVars, failStreak>>

NextCorrupt ==
    \/ StorageInit
    \/ Crash
    \/ \E t \in ForeignTexts(fileData) : ReplaceFile(t)
    \/ \E u \in StoreUrls, n \in ClockReadings : AddChannel(u, n)
    \/ \E c \in ChannelIds, v \in StoreVideoIds : AddVideo(c, v)
    \/ \E v \in StoreVideoIds, q \in Qualities :
          /\ createDownloadId(downloads, v) <= StoreTasks
          /\ Enqueue(v, q)
    \/ \E id \in 1..StoreTasks, u \in CallerUpdates :
          UpdateStatus(id, u[1], u[2])

SpecCorrupt == InitStore /\ [][NextCorrupt]_vars

\* ------------------------------------------------- executions that fail
\* lengths of the messages of 'error' events: around the limit of the
\* stored errorMessage
SpawnErrorMessages == {ErrorLimit - 1, ErrorLimit, ErrorLimit + 1}

\* documents that init() loads as they are (they have a downloads list and
\* a videos object) although an item that a task names is not among the items
LostVideoTexts(text) ==
    {[text EXCEPT !.videos = [v \in DOMAIN @ \ {w} |-> @[v]]] :
        w \in {text.downloads[i].videoId : i \in DOMAIN text.downloads}
              \cap DOMAIN text.videos}

NextFail ==
    \/ StorageInit
    \/ Crash
    \/ \E t \in LostVideoTexts(fileData) : ReplaceFile(t)
    \/ \E v \in VideoIds, q \in Qualities :
          Discover(Min(ChannelIds), v, q) /\ Bounded(v)
    \/ \E id \in TaskIds : RetryRequest(id)
    \/ (Start /\ wakeups' <= MaxWakeups)
    \/ ProcessQueue
    \/ \E id \in TaskIds : ExecSuccess(id)
    \/ \E id \in TaskIds : ExecFailure(id)
    \/ \E id \in TaskIds, m \in SpawnErrorMessages : ExecError(id, m)

SpecFail == Init /\ [][NextFail]_vars

\* ------------------------------------------------------ MonitoringScheduler
\* A pass of checkAllChannelsNow() is a record: the enabled channels it read,
\* the index of the channel it is at, whether it waits for the listing of
\* that channel or sleeps before the next one, its counters, and the number
\* of items listed so far.  A step is a trigger up to the spawn of the first
\* listing, the end of a listing up to the next spawn or sleep, or the end of
\* a sleep.  The download queue is represented by the updateDownloadStatus
\* calls it makes.
NewPass(chans) ==
    [chans |-> chans, i |-> 1, phase |-> "listing", newVideos |-> 0,
     errors |-> 0, listed |-> 0]

\* results of fetchChannelVideosBasic: a rejection or a list of item ids
Listings ==
    {<<>>} \cup UNION {[1..n -> VideoIds] : n \in 1..MaxListing}

RemoveAt(seq, k) ==
    [j \in 1..(Len(seq) - 1) |-> IF j < k THEN seq[j] ELSE seq[j + 1]]

\* a guard that lets every call through
alreadyCheckingIgnored(checking) == FALSE

\* if (this._isChecking) return
alreadyChecking(checking) == checking

\* a finally block that leaves the flag as the pass set it
isCheckingKept(checking) == checking

\* finally { this._isChecking = false }
isCheckingAfterFinally(checking) == FALSE

\* MonitoringScheduler.getStatus()
schedulerStatus == [running |-> cronTask, checking |-> isChecking]

\* checkAllChannelsNow() up to the spawn of the first listing, or to its
\* end: the call is skipped, getChannels throws on a store without channels
\* (outer catch), or no channel is enabled (return without a summary)
CheckAllChannelsNowBody ==
    /\ loaded
    /\ IF alreadyChecking(isChecking)
       THEN UNCHANGED <<isChecking, passes, lastPass>>
       ELSE IF "channels" \notin dataKeys
            THEN /\ isChecking' = isCheckingAfterFinally(TRUE)
                 /\ UNCHANGED <<passes, lastPass>>
            ELSE IF getEnabledChannels(channels) = <<>>
            THEN /\ isChecking' = isCheckingAfterFinally(TRUE)
                 /\ lastPass' = [ended |-> TRUE, sources |-> 0,
                                 summaries |-> 0]
                 /\ UNCHANGED passes
            ELSE /\ isChecking' = TRUE
                 /\ passes' = Append(passes,
                                     NewPass(getEnabledChannels(channels)))
                 /\ UNCHANGED lastPass
    /\ UNCHANGED <<storeVars, loaded, resetCount, queueVars, stopPc,
                   maxConcurrentDownloads, lastStats, procVars, failStreak>>

\* checkAllChannelsNow() called by the immediate of
\* POST /api/monitor/check-now
CheckAllChannelsNow ==
    /\ CheckAllChannelsNowBody
    /\ UNCHANGED triggerVars

\* the cron task fires
CronTick ==
    /\ cronTask
    /\ CheckAllChannelsNowBody
    /\ UNCHANGED triggerVars

\* the timer start() has armed for the start-up check fires
StartupCheck ==
    /\ startupTimer
    /\ startupTimer' = FALSE
    /\ CheckAllChannelsNowBody
    /\ UNCHANGED cronTask

\* a step 2 that takes every listed item as new
newVideosUnfiltered(vids, listing) == listing

\* step 2 of checkChannel: the listed items videoExists() does not know
newVideosOf(vids, listing) ==
    SelectSeq(listing, LAMBDA v : ~videoExists(vids, v))

\* step 3 of checkChannel: addVideo and enqueue for each new item in turn
RECURSIVE registerAll(_, _, _, _, _)
registerAll(vids, dls, channelId, new, quality) ==
    IF new = <<>>
    THEN [videos |-> vids, downloads |-> dls]
    ELSE registerAll(addVideo(vids, channelId, Head(new)),
                     createDownload(dls, Head(new), quality),
                     channelId, Tail(new), quality)

\* a catch that ends the loop over the channels
afterErrorAbort(pass) ==
    [pass EXCEPT !.errors = @ + 1, !.i = Len(pass.chans) + 1]

\* the catch around checkChannel: count the error, go on with the next channel
afterError(pass) ==
    [pass EXCEPT !.errors = @ + 1, !.i = @ + 1, !.phase = "listing"]

\* checkChannel returned the number of new items: sleep unless it was the
\* last channel
afterCheck(pass, count, listed) ==
    IF pass.i < Len(pass.chans)
    THEN [pass EXCEPT !.newVideos = @ + count, !.listed = @ + listed,
                      !.phase = "sleeping"]
    ELSE [pass EXCEPT !.newVideos = @ + count, !.listed = @ + listed,
                      !.i = @ + 1]

\* a pass that ends without an event
summaryEventsNone(pass) == 0

\* the 'monitoring:check-complete' events a pass emits after its loop
summaryEvents(pass) == 1

\* the loop goes on with the pass, or the pass ends: summary event, finally
Continue(p, pass) ==
    IF pass.i > Len(pass.chans)
    THEN /\ passes' = RemoveAt(passes, p)
         /\ isChecking' = isCheckingAfterFinally(isChecking)
         /\ lastStats' = IF summaryEvents(pass) > 0
                         THEN [totalChannels |-> Len(pass.chans),
                               newVideos |-> pass.newVideos,
                               errors |-> pass.errors]
                         ELSE lastStats
         /\ lastPass' = [ended |-> TRUE, sources |-> Len(pass.chans),
                         summaries |-> summaryEvents(pass)]
    ELSE /\ passes' = [passes EXCEPT ![p] = pass]
         /\ UNCHANGED <<isChecking, lastStats, lastPass>>

\* the listing of the pass's channel is rejected
ListingFailed(p) ==
    /\ p \in DOMAIN passes
    /\ passes[p].phase = "listing"
    /\ Continue(p, afterError(passes[p]))
    /\ UNCHANGED <<storeVars, loaded, resetCount, queueVars, stopPc,
                   maxConcurrentDownloads, triggerVars, procVars, failStreak>>

\* the listing of the pass's channel arrives: steps 2 to 4 of checkChannel
ListingDone(p, listing, quality) ==
    /\ p \in DOMAIN passes
    /\ passes[p].phase = "listing"
    /\ dataKeys = AllKeys
    /\ LET channel == passes[p].chans[passes[p].i]
           new == newVideosOf(videos, listing)
           reg == registerAll(videos, downloads, channel.id, new, quality)
       IN  /\ videos' = reg.videos
           /\ downloads' = reg.downloads
           /\ channels' = updateChannelLastCheck(channels, channel.id)
           /\ IF new = <<>> /\ channels' = channels
              THEN UNCHANGED fileVars
              ELSE SaveText(Stringify(dataKeys, channels', videos',
                                      downloads'))
           /\ wakeups' =
                 IF isRunning
                    /\ Cardinality(activeDownloads) < maxConcurrentDownloads
                 THEN wakeups + Len(new)
                 ELSE wakeups
           /\ Continue(p, afterCheck(passes[p], Len(new), Len(listing)))
    /\ UNCHANGED <<dataKeys, backups, loaded, resetCount, activeDownloads,
                   execs, isRunning, isStopping, failedEvents, stopPc,
                   maxConcurrentDownloads, triggerVars, procVars, failStreak>>

\* the sleep between two channels ends: checkChannel of the next channel
SleepDone(p) ==
    /\ p \in DOMAIN passes
    /\ passes[p].phase = "sleeping"
    /\ passes' = [passes EXCEPT ![p] = [@ EXCEPT !.i = @ + 1,
                                                 !.phase = "listing"]]
    /\ UNCHANGED <<storeVars, loaded, resetCount, queueVars, stopPc,
                   maxConcurrentDownloads, isChecking, lastStats, lastPass,
                   triggerVars, procVars, failStreak>>

NextSched ==
    \/ StorageInit
    \/ \E u \in Urls : AddChannel(u, u)
    \/ CheckAllChannelsNow
    \/ \E p \in 1..MaxPasses : ListingFailed(p)
    \/ \E p \in 1..MaxPasses, l \in Listings, q \in Qualities :
          ListingDone(p, l, q)
    \/ \E p \in 1..MaxPasses : SleepDone(p)
    \/ \E id \in 1..NumVideos, u \in CallerUpdates :
          UpdateStatus(id, u[1], u[2])

SpecSched == InitStore /\ [][NextSched]_vars

\* -------------------------------- a process dying while it registers items
\* the process ends in step 3 of checkChannel between the save() of the
\* addVideo of the k-th new item and the save() of its createDownload: the
\* file holds the first k new items and the tasks of the first k - 1
DieInRegister(p, listing, quality, k) ==
    /\ p \in DOMAIN passes
    /\ passes[p].phase = "listing"
    /\ dataKeys = AllKeys
    /\ k \in DOMAIN newVideosOf(videos, listing)
    /\ LET channel == passes[p].chans[passes[p].i]
           new == newVideosOf(videos, listing)
           reg == registerAll(videos, downloads, channel.id,
                              SubSeq(new, 1, k - 1), quality)
       IN  SaveText(Stringify(dataKeys, channels,
                              addVideo(reg.videos, channel.id, new[k]),
                              reg.downloads))
    /\ CrashBody
    /\ sigint' = "none"

NextRegister ==
    \/ StorageInit
    \/ Crash
    \/ \E p \in 1..MaxPasses, l \in Listings, q \in Qualities,
          k \in 1..MaxListing : DieInRegister(p, l, q, k)
    \/ \E u \in Urls : AddChannel(u, u)
    \/ CheckAllChannelsNow
    \/ \E p \in 1..MaxPasses : ListingFailed(p)
    \/ \E p \in 1..MaxPasses, l \in Listings, q \in Qualities :
          ListingDone(p, l, q)
    \/ \E p \in 1..MaxPasses : SleepDone(p)

SpecRegister == InitStore /\ [][NextRegister]_vars

\* ------------------------------------- passes on a store without channels
\* the file after its channels key was lost while the process was down:
\* init() loads such a document as it is, and getChannels() then throws
NoChannelsTexts(text) ==
    {Stringify(AllKeys \ {"channels"}, text.channels, text.videos,
               text.downloads)}

NextGuard ==
    \/ StorageInit
    \/ Crash
    \/ \E t \in NoChannelsTexts(fileData) : ReplaceFile(t)
    \/ \E u \in Urls : AddChannel(u, u)
    \/ \E n \in Urls, e \in Flags : ToggleChannel(n, e)
    \/ CheckAllChannelsNow
    \/ \E p \in 1..MaxPasses : ListingFailed(p)
    \/ \E p \in 1..MaxPasses, l \in Listings, q \in Qualities :
          ListingDone(p, l, q)
    \/ \E p \in 1..MaxPasses : SleepDone(p)

SpecGuard == InitStore /\ [][NextGuard]_vars

\* ------------------------------------------------ shutdown of the queue
\* The process boots (init, start), items are discovered and tasks run; the
\* signal handler calls stop(), whose interval polls until no download is
\* active.  start() is called by the boot only, hence not after stop().
NextStop ==
    \/ StorageInit
    \/ \E v \in VideoIds, q \in Qualities :
          Discover(Min(ChannelIds), v, q) /\ Bounded(v)
    \/ \E id \in TaskIds : RetryRequest(id)
    \/ (Start /\ stopPc = "idle" /\ wakeups' <= MaxWakeups)
    \/ Stop
    \/ StopPoll
    \/ ProcessQueue
    \/ \E id \in TaskIds : ExecSuccess(id)
    \/ \E id \in TaskIds : ExecFailure(id)

SpecStop ==
    /\ Init
    /\ [][NextStop]_vars
    /\ WF_vars(StopPoll)
    /\ \A id \in TaskIds : WF_vars(ExecSuccess(id) \/ ExecFailure(id))

\* ---------------------------------------------------------- TelegramService
\* config.telegram.retry.maxAttempts and .delayMs; 0 stands for a setting
\* that is missing
AttemptSettings == 0..MaxAttemptSetting
DelaySettings == {0, 1000}

\* errors bot.sendMessage rejects with: the code and the phrases of the
\* lower-cased message that _isRetryableError looks for or not
TelegramErrors ==
    {[code |-> "ETIMEDOUT", phrases |-> {}],
     [code |-> "EFATAL", phrases |-> {"network"}],
     [code |-> "ETELEGRAM", phrases |-> {"too many requests"}],
     [code |-> "ETELEGRAM", phrases |-> {"bad request"}]}

\* a check that takes every error as transient
isRetryableAlways(error) == TRUE

\* _isRetryableError(error)
isRetryableError(error) ==
    \/ error.code \in {"ETIMEDOUT", "ECONNRESET", "ENOTFOUND"}
    \/ error.phrases \cap {"too many requests", "network", "timeout"} # {}

\* a queue that marks the task failed when its notification was not sent
notifyOutcomeRecorded(dls, note) ==
    IF note.result = "success"
    THEN dls
    ELSE updateDownloadStatus(dls, note.task, "failed",
                              [errorMessage |-> TypeErrorMessage])

\* the task list after a notification has ended with note.result: the
\* immediate of _downloadNext ignores the result and catches an exception
notifyOutcome(dls, note) == dls

\* a step of the notification k that takes it to the record `note`
NoteStep(k, note) ==
    /\ notes' = [notes EXCEPT ![k] = note]
    /\ downloads' = IF note.phase = "returned"
                    THEN notifyOutcome(downloads, note)
                    ELSE downloads
    /\ IF downloads' = downloads
       THEN UNCHANGED fileVars
       ELSE Save(videos, downloads')
    /\ UNCHANGED <<channels, videos, dataKeys, backups, loaded, resetCount,
                   queueVars, stopPc, maxConcurrentDownloads, schedVars,
                   telegram, today, progress, pool, sigint, failStreak>>

\* the immediate runs notifyDownloadComplete, which calls sendMessage: the
\* first attempt is under way
NotifyRun(k) ==
    /\ k \in DOMAIN notes
    /\ notes[k].phase = "scheduled"
    /\ NoteStep(k, [notes[k] EXCEPT !.phase = "sending", !.attempt = 1])

\* notifyDownloadComplete throws before it sends (the message cannot be
\* formatted): the catch of the immediate logs the exception
NotifyThrows(k) ==
    /\ k \in DOMAIN notes
    /\ notes[k].phase = "scheduled"
    /\ NoteStep(k, [notes[k] EXCEPT !.phase = "returned",
                                    !.result = "exception"])

\* bot.sendMessage resolves
AttemptSucceeds(k) ==
    /\ k \in DOMAIN notes
    /\ notes[k].phase = "sending"
    /\ NoteStep(k, [notes[k] EXCEPT !.phase = "returned",
                                    !.result = "success"])

\* bot.sendMessage rejects with `error`: sleep and go on, or give up
AttemptFails(k, error) ==
    /\ k \in DOMAIN notes
    /\ notes[k].phase = "sending"
    /\ IF isRetryableError(error) /\ notes[k].attempt # telegram.maxRetries
       THEN NoteStep(k, [notes[k] EXCEPT
                            !.phase = "sleeping",
                            !.waited = Append(@, telegram.retryDelay
                                                 * notes[k].attempt)])
       ELSE NoteStep(k, [notes[k] EXCEPT !.phase = "returned",
                                         !.result = "send_failed"])

\* the sleep before the next attempt ends
NoteSleepDone(k) ==
    /\ k \in DOMAIN notes
    /\ notes[k].phase = "sleeping"
    /\ NoteStep(k, [notes[k] EXCEPT !.phase = "sending",
                                    !.attempt = @ + 1])

\* the queue with the Telegram notifications enabled
InitNotify ==
    /\ Constructed
    /\ maxConcurrentDownloads = MaxConcurrent
    /\ telegram \in {TelegramService(TRUE, a, d) :
                        a \in AttemptSettings, d \in DelaySettings}

NextNotify ==
    \/ StorageInit
    \/ \E v \in VideoIds, q \in Qualities :
          Discover(Min(ChannelIds), v, q) /\ Bounded(v)
    \/ (Start /\ wakeups' <= MaxWakeups)
    \/ ProcessQueue
    \/ \E id \in TaskIds : ExecSuccess(id)
    \/ \E id \in TaskIds : ExecFailure(id)
    \/ \E k \in 1..MaxDownloads : NotifyRun(k)
    \/ \E k \in 1..MaxDownloads : NotifyThrows(k)
    \/ \E k \in 1..MaxDownloads : AttemptSucceeds(k)
    \/ \E k \in 1..MaxDownloads, e \in TelegramErrors : AttemptFails(k, e)
    \/ \E k \in 1..MaxDownloads : NoteSleepDone(k)

\* every request to Telegram ends and every sleep ends
SpecNotify ==
    /\ InitNotify
    /\ [][NextNotify]_vars
    /\ \A k \in 1..MaxDownloads :
          /\ WF_vars(AttemptSucceeds(k)
                     \/ \E e \in TelegramErrors : AttemptFails(k, e))
          /\ WF_vars(NoteSleepDone(k))

\* ------------------------------------------------- boot and SIGINT handler
\* scheduler.start() of the boot: the cron task and the start-up timer
SchedulerStart ==
    /\ loaded
    /\ sigint = "none"
    /\ ~cronTask
    /\ cronTask' = TRUE
    /\ startupTimer' = TRUE
    /\ UNCHANGED <<storeVars, loaded, resetCount, queueVars, stopPc,
                   maxConcurrentDownloads, isChecking, passes, lastStats,
                   lastPass, procVars, failStreak>>

\* a stop() that leaves the cron task running
cronTaskKept(task) == task

\* MonitoringScheduler.stop(): this.cronTask.stop(); this.cronTask = null
cronTaskAfterStop(task) == FALSE

\* the handler after queueManager.stop() has returned: storage.save(),
\* server.close(callback), and the timer of the forced exit is armed
ShutdownTail ==
    /\ stopPc' = "returned"
    /\ sigint' = "closing"
    /\ SaveText(Snapshot(videos, downloads))

\* the first SIGINT (or SIGTERM): scheduler.stop(), cleanupService.stop(),
\* queueManager.stop() up to its return or to the start of its polling
\* interval, and in the first case the rest of the handler
Sigint ==
    /\ loaded
    /\ sigint = "none"
    /\ cronTask' = cronTaskAfterStop(cronTask)
    /\ isStopping' = TRUE
    /\ isRunning' = FALSE
    /\ IF activeDownloads = {}
       THEN ShutdownTail
       ELSE /\ stopPc' = "waiting"
            /\ sigint' = "waiting"
            /\ UNCHANGED fileVars
    /\ UNCHANGED <<channels, videos, downloads, dataKeys, backups, loaded,
                   resetCount, activeDownloads, execs, wakeups, failedEvents,
                   maxConcurrentDownloads, isChecking, passes, lastStats,
                   lastPass, startupTimer, notes, telegram, today, progress, pool, failStreak>>

\* a tick of the interval of the queueManager.stop() the handler awaits
SigintPoll ==
    /\ sigint = "waiting"
    /\ IF activeDownloads = {}
       THEN ShutdownTail
       ELSE UNCHANGED <<stopPc, sigint, fileVars>>
    /\ UNCHANGED <<channels, videos, downloads, dataKeys, backups, loaded,
                   resetCount, queueVars, maxConcurrentDownloads, schedVars,
                   notes, telegram, today, progress, pool, failStreak>>

\* process.exit() of the handler
ProcessExit ==
    /\ CrashBody
    /\ sigint' = "exited"
    /\ UNCHANGED fileVars

\* the callback of server.close(): every connection has ended
ServerClosed == sigint = "closing" /\ ProcessExit

\* the timer of the forced exit fires
ForcedExit == sigint = "closing" /\ ProcessExit

\* the queue from the boot to the exit of the process
NextShutdown ==
    \/ (StorageInit /\ sigint = "none")
    \/ \E v \in VideoIds, q \in Qualities :
          Discover(Min(ChannelIds), v, q) /\ Bounded(v)
    \/ (Start /\ sigint = "none" /\ wakeups' <= MaxWakeups)
    \/ ProcessQueue
    \/ \E id \in TaskIds : ExecSuccess(id)
    \/ \E id \in TaskIds : ExecFailure(id)
    \/ Sigint
    \/ SigintPoll
    \/ ServerClosed
    \/ ForcedExit

\* the event loop runs every timer that is due; an execution may never end,
\* and a connection may stay open
SpecShutdown ==
    /\ Init
    /\ [][NextShutdown]_vars
    /\ WF_vars(SigintPoll)
    /\ WF_vars(ForcedExit)

\* the scheduler from the boot to the exit of the process, the queue idle
NextSchedStop ==
    \/ (StorageInit /\ sigint = "none")
    \/ \E u \in Urls : AddChannel(u, u)
    \/ SchedulerStart
    \/ CronTick
    \/ StartupCheck
    \/ CheckAllChannelsNow
    \/ \E p \in 1..MaxPasses : ListingFailed(p)
    \/ \E p \in 1..MaxPasses, l \in Listings, q \in Qualities :
          ListingDone(p, l, q)
    \/ \E p \in 1..MaxPasses : SleepDone(p)
    \/ Sigint
    \/ ServerClosed
    \/ ForcedExit

\* every listing ends and every sleep ends; nothing forces the exit here
SpecSchedStop ==
    /\ InitStore
    /\ [][NextSchedStop]_vars
    /\ \A p \in 1..MaxPasses :
          /\ WF_vars(ListingFailed(p)
                     \/ \E l \in Listings, q \in Qualities :
                           ListingDone(p, l, q))
          /\ WF_vars(SleepDone(p))

\* ------------------------------------------------------------------ claims
RECURSIVE SumTo(_, _)
SumTo(f, n) == IF n = 0 THEN 0 ELSE f[n] + SumTo(f, n - 1)

\* number of yt-dlp executions the queue has running
RunningExecutions == SumTo(execs, MaxDownloads + ScenarioTasks)

InQueue(dls, videoId) ==
    {i \in DOMAIN dls : /\ dls[i].videoId = videoId
                        /\ dls[i].status \in {"pending", "downloading"}}

Terminal(d) == d.status \in {"completed", "failed"}

\* C1: for every item id, at most one of its tasks is pending or active, in
\* every reachable state (manual retries of any task of the item included).
C1_Exclusivity ==
    \A v \in VideoIds : Cardinality(InQueue(downloads, v)) <= 1

\* C2: a task whose execution has failed MAX_RETRIES + 1 times in a row is in
\* state failed with retryCount = MAX_RETRIES and has no execution running.
C2_RetryBound ==
    \A i \in DOMAIN downloads :
        failStreak[i] = MAX_RETRIES + 1 =>
            /\ downloads[i].status = "failed"
            /\ downloads[i].retryCount = MAX_RETRIES
            /\ execs[i] = 0

\* C3: when the execution of an active task fails, the task becomes pending
\* with retryCount + 1 if retryCount < MAX_RETRIES and failed otherwise; it
\* is not left active.
C3_FailureStep ==
    [][\A i \in DOMAIN downloads :
          (downloads[i].status = "downloading" /\ ExecFailure(i)) =>
              /\ downloads'[i].status # "downloading"
              /\ IF downloads[i].retryCount < MAX_RETRIES
                 THEN /\ downloads'[i].status = "pending"
                      /\ downloads'[i].retryCount = downloads[i].retryCount + 1
                 ELSE downloads'[i].status = "failed"]_vars

\* C4: the number of tasks the store records as active never exceeds
\* maxConcurrentDownloads.
C4_StoreActiveBound ==
    CountDownloading(downloads) <= maxConcurrentDownloads

\* C5: the number of executions running at once never exceeds
\* maxConcurrentDownloads.
C5_PoolBound ==
    RunningExecutions <= maxConcurrentDownloads

\* C6: no task id has two executions running at the same time.
C6_OneExecutionPerTask ==
    \A i \in TaskIds : execs[i] <= 1

\* the changes of state C7 allows a task in one step
ForwardOrRetry(i) ==
    LET from == downloads[i].status
        to == downloads'[i].status
    IN  \/ to = from
        \/ from = "pending" /\ to = "downloading"
        \/ from = "downloading" /\ to \in {"completed", "failed"}
        \/ from = "downloading" /\ to = "pending" /\ ExecFailure(i)
        \/ /\ from = "failed" /\ to = "pending"
           /\ downloads[i].retryCount < MAX_RETRIES

\* C7: a task only moves pending -> active -> completed | failed, active ->
\* pending on a failed execution and failed -> pending on a retry below
\* MAX_RETRIES; completed tasks stay completed and a retry of a task that is
\* not failed leaves its state alone.
C7_ForwardOnly ==
    [][\A i \in DOMAIN downloads :
          i \in DOMAIN downloads' => ForwardOrRetry(i)]_vars

\* C8: every task, in memory and in the file, has 0 <= retryCount <=
\* MAX_RETRIES.
C8_RetryCountBounded ==
    /\ \A i \in DOMAIN downloads :
          downloads[i].retryCount \in 0..MAX_RETRIES
    /\ \A i \in DOMAIN fileData.downloads :
          fileData.downloads[i].retryCount \in 0..MAX_RETRIES

\* a task that used up its retries and ended failed
C8_Witness ==
    \E i \in DOMAIN downloads :
        /\ downloads[i].retryCount = MAX_RETRIES
        /\ downloads[i].status = "failed"

\* C9: with ScenarioTasks tasks on a running queue, fair scheduling and
\* executions that end, every task eventually is completed or failed, and
\* never more than ScenarioConcurrency tasks are active.
C9_EventualCompletion ==
    /\ [](CountDownloading(downloads) <= ScenarioConcurrency)
    /\ (Len(downloads) = ScenarioTasks /\ isRunning)
          ~> (\A i \in DOMAIN downloads : Terminal(downloads[i]))

\* C10: init() turns every task the file holds as downloading into pending,
\* leaves no task downloading and keeps every other task as the file has it.
C10_CrashRecovery ==
    [][(~loaded /\ loaded') =>
          /\ DOMAIN downloads' = DOMAIN fileData.downloads
          /\ \A i \in DOMAIN fileData.downloads :
                IF fileData.downloads[i].status = "downloading"
                THEN downloads'[i] =
                        [fileData.downloads[i] EXCEPT !.status = "pending"]
                ELSE downloads'[i] = fileData.downloads[i]
          /\ CountDownloading(downloads') = 0]_vars

\* init() has just loaded a file that held active tasks
C10_Witness ==
    /\ loaded
    /\ resetCount > 0
    /\ ~isRunning /\ ~isStopping
    /\ CountDownloading(downloads) = 0
    /\ \E i \in DOMAIN downloads : downloads[i].status = "pending"

\* init() has just run on a file that was there
Reloaded == ~loaded /\ loaded' /\ fileExists

\* C11 as stated: init() on the file a save() wrote builds a store whose
\* channels, items and tasks are identical to the saved ones (the store that
\* init() builds, saved again, gives the text that was saved).
C11_RoundTrip ==
    [][Reloaded =>
          Stringify(dataKeys', channels', videos', downloads') = fileData]_vars

\* C11: when the process ends the file holds the text of the store's data,
\* and init() on that file builds a store with the same channels, items and
\* tasks, except that every task saved as downloading is pending; no backup
\* is made.
C11_RoundTripReset ==
    [][/\ (loaded /\ ~loaded') =>
             /\ fileExists'
             /\ fileData' = Stringify(AllKeys, channels, videos, downloads)
       /\ Reloaded =>
             /\ Stringify(dataKeys', channels', videos', downloads') =
                   [fileData EXCEPT !.downloads = resetDownloading(@)]
             /\ backups' = backups]_vars

\* a store loaded from a file that held a channel whose enabled property was
\* undefined and a task saved as downloading
C11_Witness ==
    /\ loaded
    /\ resetCount > 0
    /\ \E i \in DOMAIN channels : "enabled" \notin DOMAIN channels[i]

\* the texts a save() of the running process has written or is writing
SnapshotOrNext == {Snapshot(videos, downloads)} \cup MutatedTexts

\* C12: when the process dies, inside a save() or elsewhere, the file holds
\* the complete previous or the complete new snapshot; the next init() parses
\* it and makes no backup.
C12_AtomicSave ==
    [][/\ (loaded /\ ~loaded') =>
             /\ fileExists'
             /\ fileData' \in SnapshotOrNext
       /\ Reloaded =>
             /\ Parses(fileData)
             /\ backups' = backups
             /\ dataKeys' = AllKeys]_vars

\* a store loaded again after a save() that was cut inside writeFileSync
C12_Witness ==
    /\ loaded
    /\ tmpFile = Partial
    /\ downloads # <<>>
    /\ fileData = Snapshot(videos, downloads)

\* a file init() cannot load as a store document
Unloadable(text) == ~Parses(text) \/ text.keys # AllKeys

\* C13: init() on a file that is unparseable or lacks the channels, videos or
\* downloads structure ends without raising, leaves the file's content in a
\* backup and leaves the store empty with its three collections.
C13_CorruptionRecovery ==
    [][(Reloaded /\ Unloadable(fileData)) =>
          /\ fileData \in backups'
          /\ dataKeys' = AllKeys
          /\ channels' = <<>>
          /\ videos' = NoVideos
          /\ downloads' = <<>>]_vars

\* C14: whenever a call on the store has returned, the file holds the text of
\* the channels, items and tasks in memory.
C14_SaveAfterMutate ==
    loaded =>
        /\ fileExists
        /\ fileData = Stringify(dataKeys, channels, videos, downloads)

\* channel, item and task calls have changed the store
C14_Witness ==
    /\ loaded
    /\ \E i \in DOMAIN channels :
          /\ "enabled" \in DOMAIN channels[i]
          /\ channels[i].enabled = "undefined"
          /\ channels[i].lastCheckAt = "time"
    /\ \E i \in DOMAIN downloads :
          downloads[i].status = "completed" /\ downloads[i].retryCount > 0
    /\ videos # NoVideos

C17_CreateDownloadIdempotent ==
    [][\A v \in StoreVideoIds, q \in StoreQualities :
          Enqueue(v, q) =>
             IF InQueue(downloads, v) # {}
             THEN /\ downloads' = downloads
                  /\ createDownloadId(downloads, v) \in InQueue(downloads, v)
             ELSE /\ Len(downloads') = Len(downloads) + 1
                  /\ SubSeq(downloads', 1, Len(downloads)) = downloads
                  /\ createDownloadId(downloads, v) = Len(downloads')
                  /\ downloads'[Len(downloads')].videoId = v
                  /\ downloads'[Len(downloads')].quality = q
                  /\ downloads'[Len(downloads')].status = "pending"
                  /\ downloads'[Len(downloads')].retryCount = 0]_vars

\* an item whose first task is completed got a second task of another quality
C17_Witness ==
    /\ Len(downloads) = 2
    /\ downloads[1].videoId = downloads[2].videoId
    /\ downloads[1].status = "completed"
    /\ downloads[2].status = "pending"
    /\ downloads[1].quality # downloads[2].quality

TasksOf(dls, videoId) == {i \in DOMAIN dls : dls[i].videoId = videoId}

\* C16: no step of a check creates an item or a task for an id the store
\* already knows, whatever the state of the item's tasks and whichever
\* channel lists it; an id listed twice gets one task.
C16_DiscoveryIdempotent ==
    [][/\ \A v \in DOMAIN videos :
             /\ v \in DOMAIN videos'
             /\ videos'[v] = videos[v]
             /\ TasksOf(downloads', v) = TasksOf(downloads, v)
       /\ \A v \in VideoIds :
             Cardinality(TasksOf(downloads', v)) <=
                Cardinality(TasksOf(downloads, v)) + 1]_vars

\* a pass has listed items, all of them known, next to a completed task
C16_Witness ==
    /\ \E p \in DOMAIN passes :
          /\ passes[p].listed > 0
          /\ passes[p].newVideos = 0
    /\ \E i \in DOMAIN downloads : downloads[i].status = "completed"
    /\ \E i \in DOMAIN downloads : downloads[i].status = "failed"

\* C18: at most one pass is in progress and at most one listing is in
\* flight; the checking flag is set exactly while a pass is in progress (a
\* call made meanwhile starts nothing).
C18_NoOverlap ==
    /\ Len(passes) <= 1
    /\ Cardinality({p \in DOMAIN passes : passes[p].phase = "listing"}) <= 1
    /\ isChecking <=> passes # <<>>

\* a pass over two channels waits for the listing of the second
C18_Witness ==
    /\ isChecking
    /\ Len(passes) = 1
    /\ Len(passes[1].chans) = 2
    /\ passes[1].i = 2
    /\ passes[1].phase = "listing"

\* C19: a failed check of a channel adds one error and the pass goes on with
\* the next channel (or ends with its summary); a listing that arrives has
\* all its items stored, and each item that was new has one task, pending.
C19_ErrorIsolation ==
    [][\A p \in DOMAIN passes :
          /\ (ListingFailed(p) /\ passes[p].i < Len(passes[p].chans)) =>
                /\ isChecking'
                /\ passes'[p].chans = passes[p].chans
                /\ passes'[p].i = passes[p].i + 1
                /\ passes'[p].phase = "listing"
                /\ passes'[p].errors = passes[p].errors + 1
                /\ passes'[p].newVideos = passes[p].newVideos
          /\ (ListingFailed(p) /\ passes[p].i = Len(passes[p].chans)) =>
                /\ ~isChecking'
                /\ lastStats'.errors = passes[p].errors + 1
                /\ lastStats'.newVideos = passes[p].newVideos
          /\ \A l \in Listings, q \in Qualities :
                ListingDone(p, l, q) =>
                   \A k \in DOMAIN l :
                      /\ l[k] \in DOMAIN videos'
                      /\ l[k] \notin DOMAIN videos =>
                            /\ Cardinality(TasksOf(downloads', l[k])) = 1
                            /\ \A i \in TasksOf(downloads', l[k]) :
                                  /\ downloads'[i].status = "pending"
                                  /\ downloads'[i].quality = q]_vars

\* a pass over two channels ended with one failed check and new items
C19_Witness ==
    /\ ~isChecking
    /\ lastStats.totalChannels = 2
    /\ lastStats.errors = 1
    /\ lastStats.newVideos > 0
    /\ downloads # <<>>

\* C20: once stop() has been called no execution is started, stop() has
\* returned only when no execution is running, and a waiting stop() returns
\* when the executions end.
C20_GracefulStop ==
    /\ [][stopPc # "idle" => \A i \in TaskIds : execs'[i] <= execs[i]]_vars
    /\ [](stopPc = "returned" => RunningExecutions = 0)
    /\ (stopPc = "waiting") ~> (stopPc = "returned")

\* C21: once the signal handler has started, the process exits, also when an
\* execution never ends.
C21_BoundedShutdown ==
    (sigint # "none") ~> (sigint = "exited")

\* C23: getStatus() reports the store's numbers of pending, completed and
\* failed tasks, and as active the number of tasks the store has as active.
C23_ConsistentStatus ==
    /\ getStatus.pending =
          Cardinality({i \in DOMAIN downloads :
                          downloads[i].status = "pending"})
    /\ getStatus.completed =
          Cardinality({i \in DOMAIN downloads :
                          downloads[i].status = "completed"})
    /\ getStatus.failed =
          Cardinality({i \in DOMAIN downloads :
                          downloads[i].status = "failed"})
    /\ getStatus.active = CountDownloading(downloads)

\* C25: a task whose execution starts was pending, and no task before it in
\* the list was pending.
C25_FifoDispatch ==
    [][\A i \in DOMAIN downloads :
          execs'[i] > execs[i] =>
             /\ downloads[i].status = "pending"
             /\ \A j \in 1..(i - 1) : downloads[j].status # "pending"]_vars

\* the first task runs, the second waits although a slot is free
C25_Witness ==
    /\ Len(downloads) = 2
    /\ downloads[1].status = "downloading"
    /\ execs[1] = 1
    /\ downloads[2].status = "pending"
    /\ isRunning
    /\ Cardinality(activeDownloads) < maxConcurrentDownloads

\* C27: retryFailedDownload(id) returns true exactly for a known task with
\* retryCount < MAX_RETRIES; the task is then pending with retryCount + 1 and
\* no errorMessage, the other tasks are as before and the file holds the new
\* list; when it returns false the store and the file are left as they are.
C27_RetryTask ==
    /\ [](\A id \in 1..(StoreTasks + 1) :
             LET known == id \in DOMAIN downloads
                 after == retryFailedDownload(downloads, id)
             IN  IF known /\ downloads[id].retryCount < MAX_RETRIES
                 THEN /\ retryReturns(downloads, id)
                      /\ after =
                            [downloads EXCEPT ![id] =
                                [@ EXCEPT !.status = "pending",
                                          !.retryCount =
                                             downloads[id].retryCount + 1,
                                          !.errorMessage = NullMessage]]
                 ELSE /\ ~retryReturns(downloads, id)
                      /\ after = downloads)
    /\ [][\A id \in 1..StoreTasks :
             RetryRequest(id) =>
                /\ downloads' = retryFailedDownload(downloads, id)
                /\ fileData' = Snapshot(videos, downloads')
                /\ UNCHANGED <<channels, videos, dataKeys>>]_vars

\* a task that had failed with a message has been retried to the limit, next
\* to a task that was never retried
C27_Witness ==
    /\ Len(downloads) = 2
    /\ downloads[1].retryCount = MAX_RETRIES
    /\ downloads[1].status = "pending"
    /\ downloads[1].errorMessage = NullMessage
    /\ downloads[2].status = "failed"
    /\ downloads[2].errorMessage # NullMessage

\* C28 as stated: the last pass that ran to its end has emitted one summary
\* event, which carries the number of its sources.
C28_SummaryPerPass ==
    lastPass.ended =>
       /\ lastPass.summaries = 1
       /\ lastStats.totalChannels = lastPass.sources

\* C28: a pass over at least one enabled source that runs to its end emits
\* one summary event carrying the number of its sources, of the new items it
\* found and of the checks that failed; a pass that finds no enabled source
\* emits none.
C28_SummaryPerScan ==
    /\ [](lastPass.ended =>
             IF lastPass.sources > 0
             THEN /\ lastPass.summaries = 1
                  /\ lastStats.totalChannels = lastPass.sources
             ELSE lastPass.summaries = 0)
    /\ [][\A p \in DOMAIN passes :
             /\ (ListingFailed(p) /\ ~isChecking') =>
                   lastStats' = [totalChannels |-> Len(passes[p].chans),
                                 newVideos |-> passes[p].newVideos,
                                 errors |-> passes[p].errors + 1]
             /\ \A l \in Listings, q \in Qualities :
                   (ListingDone(p, l, q) /\ ~isChecking') =>
                      lastStats' =
                         [totalChannels |-> Len(passes[p].chans),
                          newVideos |-> passes[p].newVideos
                                        + Len(newVideosOf(videos, l)),
                          errors |-> passes[p].errors]]_vars

\* a pass over two sources has ended with its summary: one new item, one
\* failed check
C28_Witness ==
    /\ lastPass.ended
    /\ lastPass.sources = 2
    /\ lastPass.summaries = 1
    /\ lastStats = [totalChannels |-> 2, newVideos |-> 1, errors |-> 1]

\* C29: after the handler has called stop() the cron task starts no pass;
\* the call leaves a pass in progress as it is, the pass ends only after its
\* last source, with the checking flag cleared, and it does end unless the
\* process exits first.
C29_SchedulerStop ==
    /\ [][sigint # "none" => ~CronTick]_vars
    /\ [][Sigint => (passes' = passes /\ isChecking' = isChecking)]_vars
    /\ [][(sigint # "none" /\ isChecking /\ ~isChecking' /\ loaded') =>
             /\ passes[1].i = Len(passes[1].chans)
             /\ passes' = <<>>
             /\ lastPass'.ended
             /\ lastPass'.sources = Len(passes[1].chans)]_vars
    /\ (sigint # "none" /\ isChecking) ~> ~isChecking

\* stop() has been called while a pass is at its second source; the cron
\* task is stopped
C29_Witness ==
    /\ sigint = "closing"
    /\ ~cronTask
    /\ startupTimer
    /\ isChecking
    /\ passes[1].i = 2
    /\ passes[1].phase = "listing"

\* a step that starts a pass (also one that finds no enabled source)
PassStarts ==
    \/ Len(passes') > Len(passes)
    \/ (lastPass' # lastPass /\ passes' = passes)

\* C30: once the handler has called stop(), a pass is started only by a
\* manual check.
C30_NoPassAfterStop ==
    [][(sigint # "none" /\ loaded' /\ PassStarts) =>
          CheckAllChannelsNow]_vars

\* C22: no step of a notification changes a task, the file or the queue's
\* slots; the step that completes a task releases its slot while the
\* notification is only scheduled; the task of a notification stays completed
\* with its filePath, whatever becomes of the notification.
C22_NotificationFrame ==
    /\ [][/\ (\E k \in DOMAIN notes : notes'[k] # notes[k]) =>
                UNCHANGED <<downloads, videos, channels, fileVars,
                            activeDownloads, execs>>
          /\ \A i \in DOMAIN downloads :
                ExecSuccess(i) =>
                   /\ downloads'[i].status = "completed"
                   /\ downloads'[i].filePath = "file"
                   /\ i \notin activeDownloads'
                   /\ notes' = Append(notes, NewNote(i))]_vars
    /\ [](\A k \in DOMAIN notes :
             /\ downloads[notes[k].task].status = "completed"
             /\ downloads[notes[k].task].filePath = "file")

\* one notification was not delivered and one threw, both tasks are completed
C22_Witness ==
    /\ Len(notes) = 2
    /\ notes[1].result = "send_failed"
    /\ notes[2].result = "exception"
    /\ activeDownloads = {}
    /\ \A i \in DOMAIN downloads : downloads[i].status = "completed"

\* where the k-th notification is
NotePhase(k) == IF k \in DOMAIN notes THEN notes[k].phase ELSE "none"

\* the errors after which C24 lets sendMessage try again
Transient(error) ==
    \/ error.code \in {"ETIMEDOUT", "ECONNRESET", "ENOTFOUND"}
    \/ "too many requests" \in error.phrases
    \/ "network" \in error.phrases
    \/ "timeout" \in error.phrases

\* C24: sendMessage makes at most maxRetries attempts (3 unless set); it
\* sleeps and tries again only after a transient error of an attempt that
\* is not the last, for retryDelay x attempt, which grows from one sleep to
\* the next; a success or any other error ends it with a result object; and
\* it ends.
C24_BoundedDelivery ==
    /\ [](\A k \in DOMAIN notes :
             /\ notes[k].attempt <= telegram.maxRetries
             /\ Len(notes[k].waited) < telegram.maxRetries
             /\ \A j \in DOMAIN notes[k].waited :
                   /\ notes[k].waited[j] = telegram.retryDelay * j
                   /\ j > 1 => notes[k].waited[j] > notes[k].waited[j - 1]
             /\ (notes[k].phase = "returned" /\ notes[k].attempt > 0) =>
                   notes[k].result \in {"success", "send_failed"})
    /\ [][\A k \in DOMAIN notes :
             /\ AttemptSucceeds(k) =>
                   /\ notes'[k].phase = "returned"
                   /\ notes'[k].result = "success"
             /\ \A e \in TelegramErrors :
                   AttemptFails(k, e) =>
                      IF Transient(e) /\ notes[k].attempt < telegram.maxRetries
                      THEN /\ notes'[k].phase = "sleeping"
                           /\ notes'[k].attempt = notes[k].attempt
                      ELSE /\ notes'[k].phase = "returned"
                           /\ notes'[k].result = "send_failed"
             /\ notes'[k].attempt > notes[k].attempt =>
                   \/ notes[k].phase = "scheduled"
                   \/ /\ notes[k].phase = "sleeping"
                      /\ notes'[k].attempt = notes[k].attempt + 1]_vars
    /\ \A k \in 1..MaxDownloads :
          (NotePhase(k) \in {"sending", "sleeping"})
             ~> (NotePhase(k) = "returned")

\* the default number of attempts was used up: two sleeps, then the result
C24_Witness ==
    \E k \in DOMAIN notes :
        /\ telegram.maxRetries = DefaultMaxAttempts
        /\ notes[k].attempt = DefaultMaxAttempts
        /\ Len(notes[k].waited) = 2
        /\ notes[k].phase = "returned"
        /\ notes[k].result = "send_failed"

C31_GuardReleased ==
    /\ [](schedulerStatus.checking <=> passes # <<>>)
    /\ [][(CheckAllChannelsNow /\ ~isChecking) =>
             IF "channels" \in dataKeys
                /\ getEnabledChannels(channels) # <<>>
             THEN /\ isChecking'
                  /\ passes' = <<NewPass(getEnabledChannels(channels))>>
             ELSE /\ ~isChecking'
                  /\ passes' = <<>>]_vars
    /\ [][(passes # <<>> /\ passes' = <<>>) => ~isChecking']_vars

\* a pass is in progress after an earlier pass ended with a failed check
C31_Witness ==
    /\ isChecking
    /\ passes # <<>>
    /\ lastPass.ended
    /\ lastStats.errors > 0

\* C32: when the check of a source that listed an item is over, the store
\* has a task for the item, also after the process died while it registered
\* the item and was started again.
C32_NoItemLost ==
    [][\A p \in 1..MaxPasses, l \in Listings, q \in Qualities :
          ListingDone(p, l, q) =>
             \A k \in DOMAIN l :
                \E i \in DOMAIN downloads' : downloads'[i].videoId = l[k]]_vars

\* the tasks cleanupNow takes as stale: completed, with a file, and
\* completed more than RetentionDays days ago
Stale(i) ==
    /\ downloads[i].status = "completed"
    /\ downloads[i].filePath # "null"
    /\ downloads[i].completedAt < today - RetentionDays

\* C39: cleanupNow changes only the stale tasks whose file it has removed,
\* and of these only the filePath, which becomes null.
C39_CleanupFrame ==
    [][\A deleted \in SUBSET (1..StoreTasks) :
          CleanupNow(deleted) =>
             /\ DOMAIN downloads' = DOMAIN downloads
             /\ \A i \in DOMAIN downloads :
                   downloads'[i] =
                      IF Stale(i) /\ i \in deleted
                      THEN [downloads[i] EXCEPT !.filePath = "null"]
                      ELSE downloads[i]]_vars

\* C33: an item the store knows stays known: no call removes it from the
\* running store, the file never loses it, the store and its file hold the
\* same items, and init() takes the items of the file.
C33_DedupPermanent ==
    /\ [][(loaded /\ loaded') =>
             \A v \in StoreVideoIds :
                videoExists(videos, v) => videoExists(videos', v)]_vars
    /\ [][fileExists =>
             /\ fileExists'
             /\ DOMAIN fileData.videos \subseteq DOMAIN fileData'.videos]_vars
    /\ [](loaded => DOMAIN videos = DOMAIN fileData.videos)
    /\ [][(StorageInit /\ fileExists) =>
             \A v \in DOMAIN fileData.videos : videoExists(videos', v)]_vars

\* the item is known after its source was removed, the file of its completed
\* task was cleaned up and the process was started again with a task running
C33_Witness ==
    /\ loaded
    /\ resetCount > 0
    /\ channels = <<>>
    /\ \E i \in DOMAIN downloads :
          /\ videoExists(videos, downloads[i].videoId)
          /\ downloads[i].status = "completed"
          /\ downloads[i].filePath = "null"

\* C34: a reading is emitted exactly when it is at least 5 points above the
\* reading emitted last (0 before the first) or is 100; an emitted reading is
\* at least 5 points above the one emitted before it, or is 100.
C34_ProgressThrottle ==
    /\ progress.emitted <=>
          \/ progress.reading - progress.before >= Step
          \/ progress.reading = Complete
    /\ progress.emitted =>
          /\ progress.lastProgress = progress.reading
          /\ \/ progress.lastProgress - progress.before >= Step
             \/ progress.lastProgress = Complete

\* C35: at most one timer or immediate of _processQueue is outstanding.
C35_SingleLoop == wakeups <= 1

\* C36: the channels of the store have pairwise distinct ids.
C36_UniqueIds ==
    \A i, j \in DOMAIN channels :
        i # j => channels[i].id # channels[j].id

\* C37: at most CONCURRENT_LIMIT fetches of a call are in flight, no video
\* is fetched twice, and a call that ends without having been cancelled has
\* fetched every video once and counted each as completed or failed.
C37_FetchPool ==
    /\ Cardinality(pool.inflight) <= CONCURRENT_LIMIT
    /\ \A i \in 1..MaxFetchList : pool.fetched[i] <= 1
    /\ (pool.phase = "ended" /\ ~pool.cancelled) =>
          /\ \A i \in 1..pool.total : pool.fetched[i] = 1
          /\ pool.completed + pool.failed = pool.total

\* a call with more videos than workers has ended: some fetched, some failed
C37_Witness ==
    /\ pool.phase = "ended"
    /\ ~pool.cancelled
    /\ pool.total > CONCURRENT_LIMIT
    /\ pool.completed > 0
    /\ pool.failed > 0

\* C38: cancelDetailFetchTask(taskId) returns true exactly for the taskId of
\* a call whose record is registered; once the task is cancelled no fetch is
\* started, the fetches in flight are counted when they end, and the record
\* is gone when the call has ended.
C38_FetchCancel ==
    /\ [][\A id \in {"task", "other"} :
             CancelDetails(id) =>
                /\ pool'.returned = "true"
                      <=> (id = "task" /\ pool.phase = "running")
                /\ pool'.returned = "true" => pool'.cancelled]_vars
    /\ [][pool.cancelled =>
             /\ pool'.index = pool.index
             /\ pool'.fetched = pool.fetched
             /\ pool'.inflight \subseteq pool.inflight
             /\ pool'.completed + pool'.failed + Cardinality(pool'.inflight)
                   = pool.completed + pool.failed
                     + Cardinality(pool.inflight)]_vars
    /\ [](pool.registered <=> pool.phase = "running")

\* a cancelled call has ended with videos it never fetched
C38_Witness ==
    /\ pool.phase = "ended"
    /\ pool.cancelled
    /\ pool.completed + pool.failed = CONCURRENT_LIMIT
    /\ pool.total > CONCURRENT_LIMIT
    /\ pool.fetched[pool.total] = 0
=============================================================================
